---- MODULE Spec2Model ----
(***************************************************************************)
(* Chart widget renderer (src/src/renderer.ts) with the main process's     *)
(* settings IPC (src/unnamed/part_000) and the settings form               *)
(* (src/src/settings.ts).                                                  *)
(*                                                                         *)
(* Prices are integers.  A JavaScript null number is NULL, an empty array  *)
(* slot is HOLE.  Array indices are 0-based as in the source; a TLA+       *)
(* sequence holds the element of index i at position i + 1.                *)
(***************************************************************************)
EXTENDS Integers, Sequences, FiniteSets, TLC

\* ------------------------------------------------------------------ bounds
MaxAlerts == 2
MaxInFlight == 1
MaxFetches == 1
MaxSeriesLen == 2
MaxTimerFetches == 2

Instruments == {"XAU/USD", "EUR/USD"}
ApiKeys == {"", "k"}
TimeframeChoices == {"1h"}
\* decimal strings of the API's `close` field, as digit tuples
Closes == {<<1, 0, 0>>, <<2, 0, 0>>}
\* canvas-local pointer rows; rows 0 and 3 lie outside the plotting rectangle
Pixels == 0 .. 3
chartArea == [top |-> 1, bottom |-> 2]

\* ------------------------------------------------------------- JS values
NULL == -1
HOLE == -2

TIMEFRAMES == {"1min", "5min", "15min", "30min", "1h", "4h", "1day"}

NoAlertEntry == [has |-> FALSE, lines |-> <<>>]
NoAlertsMap == [i \in Instruments |-> NoAlertEntry]

defaultSettings ==
  [instrument |-> "XAU/USD", apiKey |-> "", refreshInterval |-> 60,
   timeframe |-> "", alerts |-> NoAlertsMap]

NoChart == [exists |-> FALSE, data |-> <<>>]
NoReq == [symbol |-> "", interval |-> "", apikey |-> "", init |-> FALSE]

\* ------------------------------------------------------------ pure helpers
RECURSIVE ParseFloat(_)
ParseFloat(ds) ==
  IF ds = <<>> THEN 0
  ELSE 10 * ParseFloat(SubSeq(ds, 1, Len(ds) - 1)) + ds[Len(ds)]

\* mutant: the series is left in the order it arrived in
ReverseNot(s) == s

\* [...values].reverse()
Reverse(s) == [i \in 1 .. Len(s) |-> s[Len(s) + 1 - i]]

PricesOf(values) ==
  LET reversed == Reverse(values)
  IN [i \in 1 .. Len(reversed) |-> ParseFloat(reversed[i].close)]

SeqMin(s) == CHOOSE m \in {s[i] : i \in 1 .. Len(s)} : \A j \in 1 .. Len(s) : m <= s[j]
SeqMax(s) == CHOOSE m \in {s[i] : i \in 1 .. Len(s)} : \A j \in 1 .. Len(s) : m >= s[j]
Abs(x) == IF x < 0 THEN -x ELSE x
MaxOf(a, b) == IF a > b THEN a ELSE b
MinOf(a, b) == IF a < b THEN a ELSE b

getTimeframe(s) == IF s.timeframe # "" /\ s.timeframe \in TIMEFRAMES THEN s.timeframe ELSE "5min"

\* The y scale the chart library fits to the data: the data range widened
\* outwards to the tick spacing, and a flat series widened by one tick.
ScaleMin(prices) ==
  LET lo == SeqMin(prices) hi == SeqMax(prices)
  IN IF lo = hi THEN lo - 50 ELSE lo - (lo % 50)
ScaleMax(prices) ==
  LET lo == SeqMin(prices) hi == SeqMax(prices)
  IN IF lo = hi THEN hi + 50 ELSE hi + ((50 - (hi % 50)) % 50)

\* scales.y.getValueForPixel: linear, chartArea.top is the axis maximum
getValueForPixel(c, y) ==
  LET lo == ScaleMin(c.data) hi == ScaleMax(c.data)
  IN hi - ((y - chartArea.top) * (hi - lo)) \div (chartArea.bottom - chartArea.top)

\* ---------------------------------------------------------- alert helpers
\* mutant: level-triggered, the side of the last price is not looked at
crossedFromBelowLevel(last, alertPrice, currentPrice) ==
  alertPrice # HOLE /\ currentPrice >= alertPrice

\* mutant: the boundary price does not count as crossed
crossedFromBelowStrict(last, alertPrice, currentPrice) ==
  alertPrice # HOLE /\ last < alertPrice /\ currentPrice > alertPrice

crossedFromBelow(last, alertPrice, currentPrice) ==
  alertPrice # HOLE /\ last < alertPrice /\ currentPrice >= alertPrice

\* mutant: level-triggered, the side of the last price is not looked at
crossedFromAboveLevel(last, alertPrice, currentPrice) ==
  alertPrice # HOLE /\ currentPrice <= alertPrice

crossedFromAbove(last, alertPrice, currentPrice) ==
  alertPrice # HOLE /\ last > alertPrice /\ currentPrice <= alertPrice

\* the notifications of the loop of checkPriceAlerts, in list order
RECURSIVE AlertEvents(_, _, _)
AlertEvents(last, lines, currentPrice) ==
  IF lines = <<>> THEN <<>>
  ELSE LET alertPrice == Head(lines)
           e == IF crossedFromBelow(last, alertPrice, currentPrice)
                  THEN <<[price |-> alertPrice, direction |-> "up"]>>
                ELSE IF crossedFromAbove(last, alertPrice, currentPrice)
                  THEN <<[price |-> alertPrice, direction |-> "down"]>>
                ELSE <<>>
       IN e \o AlertEvents(last, Tail(lines), currentPrice)

\* mutant: no early return on a null last price (null compares as 0)
checkPriceAlertsUnguarded(last, lines, currentPrice) ==
  [emitted |-> AlertEvents(IF last = NULL THEN 0 ELSE last, lines, currentPrice),
   lastPrice |-> currentPrice]

checkPriceAlerts(last, lines, currentPrice) ==
  [emitted |-> IF last = NULL THEN <<>> ELSE AlertEvents(last, lines, currentPrice),
   lastPrice |-> currentPrice]

\* mutant: the range of the prices without padding
InPaddedRangeNoPad(price, prices) ==
  LET minPrice == SeqMin(prices) maxPrice == SeqMax(prices)
  IN price # HOLE /\ price >= minPrice /\ price <= maxPrice

\* alertLines.filter(...) of updateChart; filter skips empty slots
InPaddedRange(price, prices) ==
  LET minPrice == SeqMin(prices) maxPrice == SeqMax(prices)
  IN /\ price # HOLE
     /\ 10 * price >= 10 * minPrice - (maxPrice - minPrice)
     /\ 10 * price <= 10 * maxPrice + (maxPrice - minPrice)

\* mutant: every filtering also drops the last level it kept
FilterRangeShrinking(lines, prices) ==
  LET keep(L) == InPaddedRange(L, prices)
      kept == SelectSeq(lines, keep)
  IN SubSeq(kept, 1, Len(kept) - 1)

RECURSIVE FilterRange(_, _)
FilterRange(lines, prices) ==
  IF lines = <<>> THEN <<>>
  ELSE (IF InPaddedRange(Head(lines), prices) THEN <<Head(lines)>> ELSE <<>>)
       \o FilterRange(Tail(lines), prices)

\* alertLines[i] = v, 0-based; writing past the end leaves empty slots
SetAt(lines, i, v) ==
  [k \in 1 .. MaxOf(Len(lines), i + 1) |->
     IF k = i + 1 THEN v ELSE IF k <= Len(lines) THEN lines[k] ELSE HOLE]

\* mutant: the last element goes, whatever the index
SpliceLast(lines, i) == SubSeq(lines, 1, Len(lines) - 1)

\* alertLines.splice(i, 1), 0-based
Splice(lines, i) ==
  [k \in 1 .. Len(lines) - 1 |-> IF k < i + 1 THEN lines[k] ELSE lines[k + 1]]

\* mutant: the last level within tolerance is found
findAlertIndexAtYLast(c, lines, y) ==
  IF ~c.exists THEN -1
  ELSE LET priceRange == ScaleMax(c.data) - ScaleMin(c.data)
           price == getValueForPixel(c, y)
           hits == {i \in 1 .. Len(lines) :
                      lines[i] # HOLE /\ 100 * Abs(lines[i] - price) < priceRange * 2}
       IN IF hits = {} THEN -1
          ELSE (CHOOSE i \in hits : \A j \in hits : i >= j) - 1

\* alertLines.findIndex over the levels within 2% of the axis span of the
\* price at y; an empty slot is never within tolerance
findAlertIndexAtY(c, lines, y) ==
  IF ~c.exists THEN -1
  ELSE LET priceRange == ScaleMax(c.data) - ScaleMin(c.data)
           price == getValueForPixel(c, y)
           hits == {i \in 1 .. Len(lines) :
                      lines[i] # HOLE /\ 100 * Abs(lines[i] - price) < priceRange * 2}
       IN IF hits = {} THEN -1
          ELSE (CHOOSE i \in hits : \A j \in hits : i <= j) - 1

InChartArea(y) == ~(y < chartArea.top \/ y > chartArea.bottom)

\* settings.alerts[settings.instrument] = lines
WithAlerts(s, lines) ==
  [s EXCEPT !.alerts[s.instrument] = [has |-> TRUE, lines |-> lines]]

\* JSON.stringify writes an empty array slot as null
ToJson(s) ==
  [s EXCEPT !.alerts =
     [i \in Instruments |->
        [has |-> s.alerts[i].has,
         lines |-> [k \in 1 .. Len(s.alerts[i].lines) |->
                      IF s.alerts[i].lines[k] = HOLE THEN NULL ELSE s.alerts[i].lines[k]]]]]

\* the request fetchPriceData builds from the settings
Request(s, isInit) ==
  [symbol |-> s.instrument, interval |-> getTimeframe(s), apikey |-> s.apiKey,
   init |-> isInit]

\* a response's values, newest first
Series ==
  UNION {[1 .. n -> Closes] : n \in 1 .. MaxSeriesLen}
ValuesOf(closes) ==
  [k \in 1 .. Len(closes) |-> [datetime |-> Len(closes) + 1 - k, close |-> closes[k]]]

\* what the API may answer: a series, or a failure (network error, error
\* status, no values)
Responses ==
  {[ok |-> TRUE, closes |-> c] : c \in Series} \cup {[ok |-> FALSE, closes |-> <<>>]}
\* a wide series ending at 200 and a flat one
PointerResponses ==
  {[ok |-> TRUE, closes |-> c] :
     c \in {<<<<2, 0, 0>>, <<1, 0, 0>>>>, <<<<2, 0, 0>>, <<2, 0, 0>>>>}}

\* the series of PointerResponses, or a failure
FallbackResponses ==
  PointerResponses \cup {[ok |-> FALSE, closes |-> <<>>]}

\* one flat series, or a failure
TimerResponses ==
  {[ok |-> TRUE, closes |-> <<<<2, 0, 0>>>>], [ok |-> FALSE, closes |-> <<>>]}

\* the settings files the widget may find at start-up
configuredSettings ==
  [defaultSettings EXCEPT !.apiKey = "k",
     !.alerts = [i \in Instruments |->
                   [has |-> TRUE,
                    lines |-> IF i = "XAU/USD" THEN <<199, 200>> ELSE <<150>>]]]
InitialDisks == {defaultSettings, configuredSettings}

\* settings files whose alerts lie on and next to the edges of the padded
\* range of the series 100..200, which is 90..210
PruneLevels == {89, 90, 200, 210, 211}
PruneDisks ==
  {[configuredSettings EXCEPT !.alerts["XAU/USD"].lines = l] :
     l \in UNION {[1 .. n -> PruneLevels] : n \in 0 .. MaxAlerts}}

\* ------------------------------------------------------------------ state
VARIABLES
  settings,            \* renderer's settings object
  aliased,             \* settings.alerts[settings.instrument] is the alertLines array itself
  alertLines, lastPrice, draggingAlertIndex, ctrlPressed,
  crosshairY,          \* pointer row over the canvas, NULL when the pointer is off it
  cursor,              \* canvas.style.cursor
  chart, lastSuccessfulData,
  status,              \* statusEl.textContent: "", "nokey" or "error"
  refreshIntervalId,   \* 0 when null
  timers,              \* the intervals the window has running
  fetches,             \* requests awaiting their response
  initPc,              \* init(): "start", "fetching" or "done"
  saveQ,               \* save-settings invocations on their way to the main process
  updQ,                \* settings-updated messages on their way to the renderer
  disk,                \* settings.json
  emitted,             \* sound + notification pairs of the last handler
  ev,                  \* the last handler that ran and its input
  lastPriceSym,        \* history: symbol of the response lastPrice was read from
  dataSym,             \* history: symbol of the response lastSuccessfulData holds
  upSince              \* history: levels that fired 'up' with no lower price seen since

vars == <<settings, aliased, alertLines, lastPrice, draggingAlertIndex, ctrlPressed,
          crosshairY, cursor, chart, lastSuccessfulData, status, refreshIntervalId,
          timers, fetches, initPc, saveQ, updQ, disk, emitted, ev, lastPriceSym,
          dataSym, upSince>>

\* the handler that ran last; for a settled fetch, its request, whether it
\* succeeded and the series fetchPriceData returned (<<>> stands for null);
\* for a mouseup or mouseleave, the drag index it found; the id of the timer
\* the handler cancelled, 0 if none
Ev(op, req, ok) ==
  [op |-> op, req |-> req, ok |-> ok, returned |-> <<>>, dragging |-> NULL,
   cancelled |-> 0]

\* the renderer at load, over one of these settings files
Loaded(disks) ==
  /\ settings = defaultSettings
  /\ aliased = FALSE
  /\ alertLines = <<>>
  /\ lastPrice = NULL
  /\ draggingAlertIndex = NULL
  /\ ctrlPressed = FALSE
  /\ crosshairY = NULL
  /\ cursor = "default"
  /\ chart = NoChart
  /\ lastSuccessfulData = <<>>
  /\ status = ""
  /\ refreshIntervalId = 0
  /\ timers = {}
  /\ fetches = <<>>
  /\ initPc = "start"
  /\ saveQ = <<>>
  /\ updQ = <<>>
  /\ disk \in disks
  /\ emitted = <<>>
  /\ ev = Ev("load", NoReq, FALSE)
  /\ lastPriceSym = ""
  /\ dataSym = ""
  /\ upSince = {}

Init == Loaded(InitialDisks)

\* ------------------------------------------------------- handler fragments
alertVars == <<settings, aliased, alertLines>>
pointerVars == <<draggingAlertIndex, ctrlPressed, crosshairY, cursor>>
seriesVars == <<lastPrice, lastPriceSym, lastSuccessfulData, dataSym, chart, upSince>>
timerVars == <<refreshIntervalId, timers>>
mainVars == <<updQ, disk>>

\* saveAlerts(): the list becomes the settings' entry and the settings are sent
saveAlerts(s, lines) == WithAlerts(s, lines)

\* loadAlerts(): settings.alerts?.[settings.instrument] ?? []
loadAlerts(s) == s.alerts[s.instrument]

\* an in-place write to the alertLines array shows through settings.alerts
\* when the entry of the active instrument is that same array
WriteThrough(lines) ==
  IF aliased
    THEN [settings EXCEPT !.alerts[settings.instrument].lines = lines]
    ELSE settings

\* mutant: the recorded timer is not cleared
startRefreshIntervalNoClear(s) ==
  LET used == {t.id : t \in timers}
      id == CHOOSE n \in 1 .. Cardinality(timers) + 1 :
              n \notin used /\ \A m \in 1 .. n - 1 : m \in used
      intervalMs == (IF s.refreshInterval = 0 THEN 60 ELSE s.refreshInterval) * 1000
  IN [timers |-> timers \cup {[id |-> id, ms |-> intervalMs]}, id |-> id,
      cancelled |-> 0]

\* startRefreshInterval(): clearInterval of the recorded id, then setInterval;
\* cancelled is the id of the timer it stopped, 0 if none was running
startRefreshInterval(s) ==
  LET kept == IF refreshIntervalId # 0
                THEN {t \in timers : t.id # refreshIntervalId}
                ELSE timers
      used == {t.id : t \in kept}
      id == CHOOSE n \in 1 .. Cardinality(kept) + 1 :
              n \notin used /\ \A m \in 1 .. n - 1 : m \in used
      intervalMs == (IF s.refreshInterval = 0 THEN 60 ELSE s.refreshInterval) * 1000
  IN [timers |-> kept \cup {[id |-> id, ms |-> intervalMs]}, id |-> id,
      cancelled |-> IF kept # timers THEN refreshIntervalId ELSE 0]

\* mutant: the list is pruned before the crossing check runs
updateChartPruneFirst(values, sym) ==
  LET prices == PricesOf(values)
      currentPrice == prices[Len(prices)]
      kept == FilterRange(alertLines, prices)
      chk == checkPriceAlerts(lastPrice, kept, currentPrice)
  IN /\ emitted' = chk.emitted
     /\ lastPrice' = chk.lastPrice
     /\ lastPriceSym' = sym
     /\ upSince' = {L \in upSince : ~(currentPrice < L)}
                    \cup {chk.emitted[k].price :
                            k \in {j \in 1 .. Len(chk.emitted) : chk.emitted[j].direction = "up"}}
     /\ alertLines' = kept
     /\ IF Len(kept) # Len(alertLines)
          THEN /\ settings' = saveAlerts(settings, kept)
               /\ aliased' = TRUE
               /\ saveQ' = Append(saveQ, settings')
          ELSE /\ settings' = settings
               /\ aliased' = FALSE
               /\ saveQ' = saveQ
     /\ chart' = [exists |-> TRUE, data |-> prices]

\* updateChart(values); sym is the symbol the values were fetched for
updateChart(values, sym) ==
  LET prices == PricesOf(values)
      currentPrice == prices[Len(prices)]
      chk == checkPriceAlerts(lastPrice, alertLines, currentPrice)
      kept == FilterRange(alertLines, prices)
  IN /\ emitted' = chk.emitted
     /\ lastPrice' = chk.lastPrice
     /\ lastPriceSym' = sym
     /\ upSince' = {L \in upSince : ~(currentPrice < L)}
                    \cup {chk.emitted[k].price :
                            k \in {j \in 1 .. Len(chk.emitted) : chk.emitted[j].direction = "up"}}
     /\ alertLines' = kept
     /\ IF Len(kept) # Len(alertLines)
          THEN /\ settings' = saveAlerts(settings, kept)
               /\ aliased' = TRUE
               /\ saveQ' = Append(saveQ, settings')
          ELSE /\ settings' = settings
               /\ aliased' = FALSE
               /\ saveQ' = saveQ
     /\ chart' = [exists |-> TRUE, data |-> prices]

\* ---------------------------------------------------------------- actions
\* init() up to its await of refreshData()
init ==
  /\ initPc = "start"
  /\ settings' = disk
  /\ alertLines' = loadAlerts(disk).lines
  /\ aliased' = loadAlerts(disk).has
  /\ IF disk.apiKey = ""
       THEN /\ status' = "nokey"
            /\ initPc' = "done"
            /\ fetches' = fetches
       ELSE /\ status' = status
            /\ initPc' = "fetching"
            /\ fetches' = Append(fetches, Request(disk, TRUE))
  /\ emitted' = <<>>
  /\ ev' = Ev("init", NoReq, FALSE)
  /\ UNCHANGED <<pointerVars, seriesVars, timerVars, mainVars, saveQ>>

\* a refresh timer fires: refreshData() up to the await of fetch
timerTick ==
  /\ \E t \in timers :
       /\ fetches' = Append(fetches, Request(settings, FALSE))
       /\ ev' = Ev("timer", NoReq, FALSE)
  /\ emitted' = <<>>
  /\ UNCHANGED <<alertVars, pointerVars, seriesVars, timerVars, mainVars, saveQ,
                 status, initPc>>

\* mutant: a failed fetch returns null
fetchPriceDataNoFallback(ok, values, cached) == IF ok THEN values ELSE <<>>

\* the value fetchPriceData returns: the response's values, or in the catch
\* branch the cached series
fetchPriceData(ok, values, cached) == IF ok THEN values ELSE cached

\* a fetch settles: the rest of fetchPriceData, refreshData and, for the
\* fetch init() awaits, of init()
fetchSettled(responses) ==
  \E i \in 1 .. Len(fetches), r \in responses :
    LET req == fetches[i]
        ok == r.ok
        values == ValuesOf(r.closes)
        data == fetchPriceData(ok, values, lastSuccessfulData)
        started == startRefreshInterval(settings)
    IN /\ ok => req.apikey # ""
       /\ fetches' = [k \in 1 .. Len(fetches) - 1 |->
                        IF k < i THEN fetches[k] ELSE fetches[k + 1]]
       /\ lastSuccessfulData' = IF ok THEN values ELSE lastSuccessfulData
       /\ dataSym' = IF ok THEN req.symbol ELSE dataSym
       /\ status' = IF ok THEN "" ELSE "error"
       /\ IF data # <<>>
            THEN updateChart(data, dataSym')
            ELSE /\ emitted' = <<>>
                 /\ UNCHANGED <<alertVars, lastPrice, lastPriceSym, chart, saveQ, upSince>>
       /\ IF req.init
            THEN /\ timers' = started.timers
                 /\ refreshIntervalId' = started.id
                 /\ initPc' = "done"
            ELSE UNCHANGED <<timerVars, initPc>>
       /\ ev' = [Ev("fetch", req, ok) EXCEPT
                  !.returned = data,
                  !.cancelled = IF req.init THEN started.cancelled ELSE 0]
       /\ UNCHANGED <<pointerVars, mainVars>>

\* a timeframe is picked in the dropdown, which is used once the widget has
\* loaded its settings
selectTimeframe ==
  \E value \in TimeframeChoices :
    LET chosen == [settings EXCEPT !.timeframe = value]
        cleared == saveAlerts(chosen, <<>>)
    IN /\ initPc # "start"
       /\ settings' = cleared
       /\ alertLines' = <<>>
       /\ aliased' = TRUE
       /\ saveQ' = saveQ \o <<chosen, cleared>>
       /\ lastSuccessfulData' = <<>>
       /\ dataSym' = ""
       /\ lastPrice' = NULL
       /\ lastPriceSym' = ""
       /\ chart' = NoChart
       /\ upSince' = upSince
       /\ fetches' = Append(fetches, Request(cleared, FALSE))
       /\ emitted' = <<>>
       /\ ev' = Ev("timeframe", NoReq, FALSE)
       /\ UNCHANGED <<pointerVars, timerVars, mainVars, status, initPc>>

\* setMiniMode(!settings.miniMode): of its effects only the save is kept
setMiniMode ==
  /\ initPc # "start"
  /\ saveQ' = Append(saveQ, settings)
  /\ emitted' = <<>>
  /\ ev' = Ev("mini", NoReq, FALSE)
  /\ UNCHANGED <<alertVars, pointerVars, seriesVars, timerVars, mainVars, fetches,
                 status, initPc>>

mousemove ==
  \E y \in Pixels :
    /\ crosshairY' = y
    /\ IF draggingAlertIndex # NULL /\ chart.exists
         THEN LET clampedY == MaxOf(chartArea.top, MinOf(chartArea.bottom, y))
                  newPrice == getValueForPixel(chart, clampedY)
                  written == SetAt(alertLines, draggingAlertIndex, newPrice)
              IN /\ alertLines' = written
                 /\ settings' = WriteThrough(written)
                 /\ cursor' = cursor
         ELSE /\ cursor' = IF ~chart.exists THEN cursor
                           ELSE IF findAlertIndexAtY(chart, alertLines, y) # -1
                             THEN "ns-resize"
                           ELSE IF ctrlPressed THEN "crosshair"
                           ELSE "default"
              /\ UNCHANGED <<alertLines, settings>>
    /\ emitted' = <<>>
    /\ ev' = Ev("mousemove", NoReq, FALSE)
    /\ UNCHANGED <<aliased, draggingAlertIndex, ctrlPressed, seriesVars, timerVars,
                   mainVars, fetches, status, initPc, saveQ>>

\* the button goes down where the pointer is
mousedown ==
  \E y \in Pixels :
    LET alertIdx == findAlertIndexAtY(chart, alertLines, y)
    IN /\ y = crosshairY
       /\ draggingAlertIndex' =
            IF chart.exists /\ InChartArea(y) /\ alertIdx # -1 /\ ~ctrlPressed
              THEN alertIdx
              ELSE draggingAlertIndex
       /\ emitted' = <<>>
       /\ ev' = Ev("mousedown", NoReq, FALSE)
       /\ UNCHANGED <<alertVars, ctrlPressed, crosshairY, cursor, seriesVars, timerVars,
                      mainVars, fetches, status, initPc, saveQ>>

\* mutant: the end of a drag is not saved
mouseupDragUnsaved ==
  \E y \in Pixels :
    LET alertIdx == findAlertIndexAtY(chart, alertLines, y)
        clickedPrice == getValueForPixel(chart, y)
        edited == IF alertIdx # -1
                    THEN Splice(alertLines, alertIdx)
                    ELSE Append(alertLines, clickedPrice)
    IN /\ y = crosshairY
       /\ IF ~chart.exists
            THEN UNCHANGED <<alertVars, draggingAlertIndex, saveQ>>
          ELSE IF draggingAlertIndex # NULL
            THEN /\ draggingAlertIndex' = NULL
                 /\ UNCHANGED <<alertVars, saveQ>>
          ELSE IF ~ctrlPressed \/ ~InChartArea(y)
            THEN UNCHANGED <<alertVars, draggingAlertIndex, saveQ>>
          ELSE /\ draggingAlertIndex' = draggingAlertIndex
               /\ alertLines' = edited
               /\ settings' = saveAlerts(settings, edited)
               /\ aliased' = TRUE
               /\ saveQ' = Append(saveQ, settings')
       /\ emitted' = <<>>
       /\ ev' = [Ev("mouseup", NoReq, FALSE) EXCEPT !.dragging = draggingAlertIndex]
       /\ UNCHANGED <<ctrlPressed, crosshairY, cursor, seriesVars, timerVars, mainVars,
                      fetches, status, initPc>>

\* the button comes up where the pointer is
mouseup ==
  \E y \in Pixels :
    LET alertIdx == findAlertIndexAtY(chart, alertLines, y)
        clickedPrice == getValueForPixel(chart, y)
        edited == IF alertIdx # -1
                    THEN Splice(alertLines, alertIdx)
                    ELSE Append(alertLines, clickedPrice)
    IN /\ y = crosshairY
       /\ IF ~chart.exists
            THEN UNCHANGED <<alertVars, draggingAlertIndex, saveQ>>
          ELSE IF draggingAlertIndex # NULL
            THEN /\ draggingAlertIndex' = NULL
                 /\ alertLines' = alertLines
                 /\ settings' = saveAlerts(settings, alertLines)
                 /\ aliased' = TRUE
                 /\ saveQ' = Append(saveQ, settings')
          ELSE IF ~ctrlPressed \/ ~InChartArea(y)
            THEN UNCHANGED <<alertVars, draggingAlertIndex, saveQ>>
          ELSE /\ draggingAlertIndex' = draggingAlertIndex
               /\ alertLines' = edited
               /\ settings' = saveAlerts(settings, edited)
               /\ aliased' = TRUE
               /\ saveQ' = Append(saveQ, settings')
       /\ emitted' = <<>>
       /\ ev' = [Ev("mouseup", NoReq, FALSE) EXCEPT !.dragging = draggingAlertIndex]
       /\ UNCHANGED <<ctrlPressed, crosshairY, cursor, seriesVars, timerVars, mainVars,
                      fetches, status, initPc>>

\* mutant: a drag survives the pointer leaving the canvas
mouseleaveKeepsDrag ==
  /\ crosshairY' = NULL
  /\ draggingAlertIndex' = draggingAlertIndex
  /\ cursor' = "default"
  /\ emitted' = <<>>
  /\ ev' = [Ev("mouseleave", NoReq, FALSE) EXCEPT !.dragging = draggingAlertIndex]
  /\ UNCHANGED <<alertVars, ctrlPressed, seriesVars, timerVars, mainVars, fetches,
                 status, initPc, saveQ>>

mouseleave ==
  /\ crosshairY' = NULL
  /\ draggingAlertIndex' = NULL
  /\ cursor' = "default"
  /\ emitted' = <<>>
  /\ ev' = [Ev("mouseleave", NoReq, FALSE) EXCEPT !.dragging = draggingAlertIndex]
  /\ UNCHANGED <<alertVars, ctrlPressed, seriesVars, timerVars, mainVars, fetches,
                 status, initPc, saveQ>>

\* keydown of the Control key
keydown ==
  /\ ctrlPressed' = TRUE
  /\ emitted' = <<>>
  /\ ev' = Ev("keydown", NoReq, FALSE)
  /\ UNCHANGED <<alertVars, draggingAlertIndex, crosshairY, cursor, seriesVars,
                 timerVars, mainVars, fetches, status, initPc, saveQ>>

\* keyup of the Control key
keyup ==
  /\ ctrlPressed' = FALSE
  /\ draggingAlertIndex' = NULL
  /\ cursor' = "default"
  /\ emitted' = <<>>
  /\ ev' = Ev("keyup", NoReq, FALSE)
  /\ UNCHANGED <<alertVars, crosshairY, seriesVars, timerVars, mainVars, fetches,
                 status, initPc, saveQ>>

\* what parseInt makes of the interval field: 0 stands for NaN
RawIntervals == {0, 5, 60}

\* the settings form is submitted: its settings carry no alerts and no
\* timeframe; the form's window is opened from the widget once it has loaded
submit ==
  \E instrument \in Instruments, apiKey \in ApiKeys, raw \in RawIntervals :
    /\ initPc # "start"
    /\ saveQ' = Append(saveQ,
         [instrument |-> instrument, apiKey |-> apiKey,
          refreshInterval |-> MaxOf(10, IF raw = 0 THEN 60 ELSE raw),
          timeframe |-> "", alerts |-> NoAlertsMap])
    /\ emitted' = <<>>
    /\ ev' = Ev("submit", NoReq, FALSE)
    /\ UNCHANGED <<alertVars, pointerVars, seriesVars, timerVars, mainVars, fetches,
                   status, initPc>>

\* main process, ipcMain.handle('save-settings'); it has answered the
\* get-settings of init() before, which was sent first
saveSettingsHandler ==
  /\ saveQ # <<>>
  /\ initPc # "start"
  /\ disk' = ToJson(Head(saveQ))
  /\ updQ' = Append(updQ, Head(saveQ))
  /\ saveQ' = Tail(saveQ)
  /\ emitted' = <<>>
  /\ ev' = Ev("main", NoReq, FALSE)
  /\ UNCHANGED <<alertVars, pointerVars, seriesVars, timerVars, fetches, status, initPc>>

onSettingsUpdated ==
  /\ updQ # <<>>
  /\ LET newSettings == Head(updQ)
         instrumentChanged == settings.instrument # newSettings.instrument
         intervalChanged == settings.refreshInterval # newSettings.refreshInterval
         started == startRefreshInterval(newSettings)
     IN /\ settings' = newSettings
        /\ IF instrumentChanged
             THEN /\ lastSuccessfulData' = <<>>
                  /\ dataSym' = ""
                  /\ lastPrice' = NULL
                  /\ lastPriceSym' = ""
                  /\ alertLines' = loadAlerts(newSettings).lines
                  /\ aliased' = loadAlerts(newSettings).has
                  /\ chart' = NoChart
                  /\ upSince' = upSince
             ELSE /\ aliased' = FALSE
                  /\ UNCHANGED <<alertLines, seriesVars>>
        /\ IF newSettings.apiKey # ""
             THEN /\ status' = ""
                  /\ fetches' = Append(fetches, Request(newSettings, FALSE))
                  /\ IF intervalChanged
                       THEN /\ timers' = started.timers
                            /\ refreshIntervalId' = started.id
                       ELSE UNCHANGED timerVars
             ELSE UNCHANGED <<status, fetches, timerVars>>
        /\ ev' = [Ev("updated", NoReq, FALSE) EXCEPT
                   !.cancelled = IF newSettings.apiKey # "" /\ intervalChanged
                                   THEN started.cancelled
                                   ELSE 0]
  /\ updQ' = Tail(updQ)
  /\ emitted' = <<>>
  /\ UNCHANGED <<pointerVars, disk, saveQ, initPc>>

\* the model's bounds: a handler saves only while fewer than MaxInFlight
\* earlier saves are still under way, at most MaxFetches requests are
\* outstanding, and the list holds at most MaxAlerts levels
Bounded ==
  /\ Len(saveQ') > Len(saveQ) => Len(saveQ) + Len(updQ) < MaxInFlight
  /\ Len(fetches') <= MaxFetches
  /\ Len(alertLines') <= MaxAlerts

\* the data path alone: no pointer or keyboard input
NextFeed ==
  \/ init /\ Bounded
  \/ timerTick /\ Bounded
  \/ fetchSettled(Responses) /\ Bounded
  \/ selectTimeframe /\ Bounded
  \/ setMiniMode /\ Bounded
  \/ submit /\ Bounded
  \/ saveSettingsHandler /\ Bounded
  \/ onSettingsUpdated /\ Bounded

SpecFeed == Init /\ [][NextFeed]_vars

\* pointer and keyboard input over a chart that refreshes at start-up and
\* after every save: the settings form is not used, no timeframe is selected
\* and the refresh timer does not fire
NextPointer ==
  \/ init /\ Bounded
  \/ fetchSettled(PointerResponses) /\ Bounded
  \/ mousemove /\ Bounded
  \/ mousedown /\ Bounded
  \/ mouseup /\ Bounded
  \/ mouseleave /\ Bounded
  \/ keydown /\ Bounded
  \/ keyup /\ Bounded
  \/ saveSettingsHandler /\ Bounded
  \/ onSettingsUpdated /\ Bounded

SpecPointer == Init /\ [][NextPointer]_vars

\* the refresh path alone, over settings files with alerts around the edges
\* of the padded range
InitPrune == Loaded(PruneDisks)

NextPrune ==
  \/ init /\ Bounded
  \/ timerTick /\ Bounded
  \/ fetchSettled(Responses) /\ Bounded
  \/ saveSettingsHandler /\ Bounded
  \/ onSettingsUpdated /\ Bounded

SpecPrune == InitPrune /\ [][NextPrune]_vars

\* pointer and keyboard input over a chart whose refreshes may fail
NextFallback ==
  \/ init /\ Bounded
  \/ fetchSettled(FallbackResponses) /\ Bounded
  \/ mousemove /\ Bounded
  \/ mousedown /\ Bounded
  \/ mouseup /\ Bounded
  \/ mouseleave /\ Bounded
  \/ keydown /\ Bounded
  \/ keyup /\ Bounded
  \/ saveSettingsHandler /\ Bounded
  \/ onSettingsUpdated /\ Bounded

SpecFallback == Init /\ [][NextFallback]_vars

\* as Bounded, with room for the requests of a settings update and of a
\* timer while the one of init() is outstanding
BoundedTimers ==
  /\ Len(saveQ') > Len(saveQ) => Len(saveQ) + Len(updQ) < MaxInFlight
  /\ Len(fetches') <= MaxTimerFetches
  /\ Len(alertLines') <= MaxAlerts

\* start-up, the refresh timer and settings saved by the form
NextTimer ==
  \/ init /\ BoundedTimers
  \/ timerTick /\ BoundedTimers
  \/ fetchSettled(TimerResponses) /\ BoundedTimers
  \/ submit /\ BoundedTimers
  \/ saveSettingsHandler /\ BoundedTimers
  \/ onSettingsUpdated /\ BoundedTimers

SpecTimer == Init /\ [][NextTimer]_vars

\* the alias flag and the history variables agree with what they describe
TypeOK ==
  /\ aliased => settings.alerts[settings.instrument] = [has |-> TRUE, lines |-> alertLines]
  /\ lastPrice = NULL <=> lastPriceSym = ""
  /\ lastSuccessfulData = <<>> <=> dataSym = ""

\* ------------------------------------------------------------------ claims
\* this step is a fetch settling that handed a series to updateChart
Rendered == ev'.op = "fetch" /\ ev'.returned # <<>>
\* the price of the newest element of a response's values
NewestPrice(values) == ParseFloat(values[1].close)
CountEvents(events, L, dir) ==
  Cardinality({k \in 1 .. Len(events) : events[k] = [price |-> L, direction |-> dir]})
Entries(lines, L) == Cardinality({k \in 1 .. Len(lines) : lines[k] = L})

\* C1: a crossing check with a recorded last price emits, for every level L of
\* the list, an 'up' alert per entry iff last < L <= P and a 'down' alert per
\* entry iff last > L >= P, nothing else, and records P.
C1_CrossingRule ==
  [][(Rendered /\ lastPrice # NULL) =>
       LET P == NewestPrice(ev'.returned)
           levels == {alertLines[k] : k \in 1 .. Len(alertLines)} \ {HOLE}
           fired == {L \in levels : (lastPrice < L /\ L <= P) \/ (lastPrice > L /\ L >= P)}
       IN /\ lastPrice' = P
          /\ \A L \in levels :
               /\ CountEvents(emitted', L, "up") =
                    IF lastPrice < L /\ L <= P THEN Entries(alertLines, L) ELSE 0
               /\ CountEvents(emitted', L, "down") =
                    IF lastPrice > L /\ L >= P THEN Entries(alertLines, L) ELSE 0
          /\ \A k \in 1 .. Len(emitted') : emitted'[k].price \in fired]_vars

\* two levels fired in one check
C1_Witness ==
  /\ ev.op = "fetch"
  /\ Len(emitted) = 2
  /\ emitted[1].price # emitted[2].price
  /\ lastPrice = NewestPrice(lastSuccessfulData)

\* C2: a crossing check with no last price recorded records the price and
\* emits nothing, whatever the list holds.
C2_FirstPriceSilent ==
  [][(Rendered /\ lastPrice = NULL) =>
       /\ emitted' = <<>>
       /\ lastPrice' = NewestPrice(ev'.returned)]_vars

\* the first response of init() was rendered over a non-empty list
C2_Witness ==
  /\ ev.op = "fetch"
  /\ ev.req.init
  /\ ev.ok
  /\ alertLines # <<>>
  /\ emitted = <<>>
  /\ lastPrice = NewestPrice(lastSuccessfulData)

\* C3: edge-triggered detection: an 'up' alert for L fires once per entry of L,
\* only when the recorded price was strictly below L, and never again before
\* an update has seen a price strictly below L; a price staying on L or on
\* one side of L fires nothing for L.
C3_EdgeTriggered ==
  [][Rendered =>
       LET P == NewestPrice(ev'.returned)
           levels == {alertLines[k] : k \in 1 .. Len(alertLines)} \ {HOLE}
       IN \A L \in levels :
            /\ CountEvents(emitted', L, "up") \in {0, Entries(alertLines, L)}
            /\ CountEvents(emitted', L, "up") > 0 =>
                 L \notin upSince /\ lastPrice # NULL /\ lastPrice < L
            /\ (lastPrice # NULL /\ lastPrice >= L /\ P >= L) =>
                 CountEvents(emitted', L, "up") = 0
            /\ (lastPrice # NULL /\ (  (lastPrice = L /\ P = L)
                                    \/ (lastPrice < L /\ P < L)
                                    \/ (lastPrice > L /\ P > L))) =>
                 CountEvents(emitted', L, "up") + CountEvents(emitted', L, "down") = 0]_vars

\* the price sits on a level that fired 'up' earlier, and the check stays silent
C3_Witness ==
  /\ ev.op = "fetch"
  /\ lastPrice \in upSince
  /\ lastPrice \in {alertLines[k] : k \in 1 .. Len(alertLines)}
  /\ emitted = <<>>

\* the active instrument changes in this step
Switched == settings'.instrument # settings.instrument

\* C4: after a switch of the active instrument the list is the one stored for
\* the new instrument, and no crossing check compares a price of the active
\* instrument with a last price observed for another one.
C4_NoCrossInstrument ==
  /\ [][Switched => alertLines' = loadAlerts(settings').lines]_vars
  /\ [][(Rendered /\ dataSym' = settings.instrument /\ lastPrice # NULL) =>
          lastPriceSym = dataSym']_vars

\* the settled fetch was started for another instrument or timeframe than the
\* active one
Stale ==
  /\ ev'.op = "fetch"
  /\ \/ ev'.req.symbol # settings.instrument
     \/ ev'.req.interval # getTimeframe(settings)

\* C5: a response arriving after the instrument or timeframe changed is
\* discarded: cache, chart, last price and alert list stay as they are and
\* nothing is persisted.
C5_StaleDiscarded ==
  [][Stale => /\ UNCHANGED <<lastSuccessfulData, chart, lastPrice, alertLines>>
              /\ saveQ' = saveQ]_vars

\* C6: a failed fetch shows an error status, leaves the cache alone and
\* returns the cached series, which is rendered; it returns null, and nothing
\* is rendered, only when no fetch succeeded since the cache was last empty.
C6_FallbackToCache ==
  /\ [](lastSuccessfulData = <<>> <=> dataSym = "")
  /\ [][(ev'.op = "fetch" /\ ~ev'.ok) =>
          /\ status' = "error"
          /\ lastSuccessfulData' = lastSuccessfulData
          /\ ev'.returned = lastSuccessfulData
          /\ IF dataSym # ""
               THEN /\ chart' = [exists |-> TRUE, data |-> PricesOf(lastSuccessfulData)]
                    /\ lastPrice' = NewestPrice(lastSuccessfulData)
               ELSE /\ UNCHANGED <<chart, lastPrice, alertLines, settings>>
                    /\ saveQ' = saveQ]_vars

\* a fetch failed and the cached series was returned and is on the chart
C6_Witness ==
  /\ ev.op = "fetch"
  /\ ~ev.ok
  /\ status = "error"
  /\ ev.returned # <<>>
  /\ ev.returned = lastSuccessfulData
  /\ chart.exists

\* the 1-based positions of the levels within 2% of the axis span of the
\* price at pixel y
Hits(y) ==
  {i \in 1 .. Len(alertLines) :
     /\ alertLines[i] # HOLE
     /\ 100 * Abs(alertLines[i] - getValueForPixel(chart, y))
          < 2 * (ScaleMax(chart.data) - ScaleMin(chart.data))}
FirstHit(y) == CHOOSE i \in Hits(y) : \A j \in Hits(y) : i <= j
\* y lies in the plotting rectangle of an existing chart
InsidePlot(y) == chart.exists /\ chartArea.top <= y /\ y <= chartArea.bottom

\* C7: a pointer-down starts a drag iff a chart exists, y is inside the
\* plotting rectangle, a level lies within tolerance and the modifier is not
\* held; the drag index is then the first such level, and otherwise the drag
\* state stays as it was.
C7_DragStart ==
  [][ev'.op = "mousedown" =>
       IF InsidePlot(crosshairY) /\ Hits(crosshairY) # {} /\ ~ctrlPressed
         THEN draggingAlertIndex' = FirstHit(crosshairY) - 1
         ELSE draggingAlertIndex' = draggingAlertIndex]_vars

\* this pointer-down found two levels within tolerance and started a drag of
\* the first
C7_Witness ==
  /\ ev.op = "mousedown"
  /\ draggingAlertIndex = 0
  /\ ~ctrlPressed
  /\ InsidePlot(crosshairY)
  /\ Cardinality(Hits(crosshairY)) = 2

\* the pointer's y clamped to the plotting rectangle
Clamped(y) == MaxOf(chartArea.top, MinOf(chartArea.bottom, y))
\* this step calls saveSettings
Saved == Len(saveQ') > Len(saveQ)
\* the newest entry of the save queue carries this list for the active instrument
Persisted(lines) ==
  /\ Len(saveQ') = Len(saveQ) + 1
  /\ SubSeq(saveQ', 1, Len(saveQ)) = saveQ
  /\ saveQ'[Len(saveQ')].alerts[settings.instrument] = [has |-> TRUE, lines |-> lines]

\* C8: during a drag of index i every pointer move sets levels[i] to the
\* price at the clamped y, a price of the visible axis range, and leaves the
\* length of the list and every other index as they were.
C8_Reposition ==
  [][(ev'.op = "mousemove" /\ draggingAlertIndex # NULL) =>
       /\ chart.exists
       /\ LET i == draggingAlertIndex + 1
              p == getValueForPixel(chart, Clamped(crosshairY'))
          IN /\ Len(alertLines') = Len(alertLines)
             /\ i <= Len(alertLines')
             /\ alertLines'[i] = p
             /\ ScaleMin(chart.data) <= p /\ p <= ScaleMax(chart.data)
             /\ \A k \in 1 .. Len(alertLines) : k # i => alertLines'[k] = alertLines[k]]_vars

\* C9 as stated: from the pointer-down that starts a drag to the pointer-up
\* that ends it nothing persists the list, and that pointer-up clears the
\* drag, persists the list once and leaves it as it is.
C9_NoSaveDuringDrag ==
  /\ [][(draggingAlertIndex # NULL /\ ev'.op # "mouseup") => ~Saved]_vars
  /\ [][(ev'.op = "mouseup" /\ draggingAlertIndex # NULL /\ chart.exists) =>
          /\ draggingAlertIndex' = NULL
          /\ alertLines' = alertLines
          /\ Persisted(alertLines)]_vars

\* C9 amended: no pointer move of a drag persists the list; a refresh that
\* prunes the list may persist it during a drag; the pointer-up that ends
\* the drag over a chart clears the drag, persists the list once and leaves
\* it as it is, modifier held or not.
C9_DragPersistsOnRelease ==
  /\ [][(draggingAlertIndex # NULL /\ ev'.op = "mousemove") => saveQ' = saveQ]_vars
  /\ [][(draggingAlertIndex # NULL /\ Saved) =>
          \/ ev'.op = "mouseup"
          \/ ev'.op = "fetch" /\ Len(alertLines') < Len(alertLines)]_vars
  /\ [][(ev'.op = "mouseup" /\ draggingAlertIndex # NULL /\ chart.exists) =>
          /\ draggingAlertIndex' = NULL
          /\ alertLines' = alertLines
          /\ Persisted(alertLines)]_vars

\* a drag that moved a level ended at a pointer-up with the modifier held:
\* one save is under way and the list kept its length
C9_Witness ==
  /\ ev.op = "mouseup"
  /\ ev.dragging # NULL
  /\ ctrlPressed
  /\ draggingAlertIndex = NULL
  /\ Len(saveQ) = 1
  /\ saveQ[1].alerts[settings.instrument].lines = alertLines
  /\ alertLines = <<100, 200>>

\* C10: a pointer-up with no drag, the modifier held and the pointer inside
\* the plotting rectangle removes the first level within tolerance if there
\* is one and appends the price at the pointer otherwise, and persists the
\* list once; with no drag and the modifier not held or the pointer outside
\* the rectangle it changes and persists nothing.
C10_ModifierClick ==
  [][(ev'.op = "mouseup" /\ draggingAlertIndex = NULL) =>
       LET y == crosshairY
           n == Len(alertLines)
       IN IF ctrlPressed /\ InsidePlot(y)
            THEN /\ Persisted(alertLines')
                 /\ IF Hits(y) # {}
                      THEN /\ Len(alertLines') = n - 1
                           /\ \A k \in 1 .. n - 1 :
                                alertLines'[k] =
                                  IF k < FirstHit(y) THEN alertLines[k] ELSE alertLines[k + 1]
                      ELSE /\ Len(alertLines') = n + 1
                           /\ SubSeq(alertLines', 1, n) = alertLines
                           /\ alertLines'[n + 1] = getValueForPixel(chart, y)
            ELSE /\ alertLines' = alertLines
                 /\ saveQ' = saveQ]_vars

\* a modifier-click found two levels within tolerance and removed the first
C10_Witness ==
  /\ ev.op = "mouseup"
  /\ ev.dragging = NULL
  /\ ctrlPressed
  /\ InsidePlot(crosshairY)
  /\ chart.data = <<100, 200>>
  /\ crosshairY = chartArea.top
  /\ alertLines = <<200>>
  /\ Len(saveQ) = 1
  /\ saveQ[1].alerts[settings.instrument].lines = <<200>>
  /\ Len(disk.alerts[settings.instrument].lines) = 2

\* C11: releasing the modifier during a drag does not cancel it: the drag
\* index stays set and no key event ends a drag.
C11_KeyupKeepsDrag ==
  [][(ev'.op \in {"keyup", "keydown"} /\ draggingAlertIndex # NULL) =>
       draggingAlertIndex' = draggingAlertIndex]_vars

\* C12: the pointer leaving the canvas clears the crosshair position and any
\* drag, resets the cursor and persists nothing; no drag exists again before
\* a pointer-down, and a pointer-up that finds no drag repositions nothing
\* and, the modifier not held, persists nothing.
C12_LeaveClearsDrag ==
  /\ [][ev'.op = "mouseleave" =>
          /\ crosshairY' = NULL
          /\ draggingAlertIndex' = NULL
          /\ cursor' = "default"
          /\ saveQ' = saveQ
          /\ alertLines' = alertLines]_vars
  /\ [][(draggingAlertIndex = NULL /\ draggingAlertIndex' # NULL) =>
          ev'.op = "mousedown"]_vars
  /\ [][(ev'.op = "mouseup" /\ draggingAlertIndex = NULL) =>
          /\ Len(alertLines') = Len(alertLines) => alertLines' = alertLines
          /\ ~ctrlPressed => (alertLines' = alertLines /\ saveQ' = saveQ)]_vars

\* the pointer left the canvas during a drag that had moved a level: the
\* moved list is in memory, the drag is gone and nothing was saved
C12_Witness ==
  /\ ev.op = "mouseleave"
  /\ ev.dragging # NULL
  /\ draggingAlertIndex = NULL
  /\ crosshairY = NULL
  /\ alertLines = <<100, 200>>
  /\ disk.alerts[settings.instrument].lines = <<199, 200>>
  /\ saveQ = <<>>
  /\ updQ = <<>>

\* C13: a reposition with an index outside the list, as a drag index is
\* after a refresh pruned the list, changes nothing.
C13_StaleIndexNoOp ==
  [][(ev'.op = "mousemove" /\ draggingAlertIndex # NULL
        /\ draggingAlertIndex >= Len(alertLines)) =>
       alertLines' = alertLines]_vars

\* the levels of the list inside the padded range of these prices, in order
InRange(lines, prices) ==
  LET ps == {prices[k] : k \in 1 .. Len(prices)}
      lo == CHOOSE m \in ps : \A x \in ps : m <= x
      hi == CHOOSE m \in ps : \A x \in ps : m >= x
      keep(L) == L # HOLE /\ 10 * lo - (hi - lo) <= 10 * L /\ 10 * L <= 10 * hi + (hi - lo)
  IN SelectSeq(lines, keep)

\* C14: a chart update leaves exactly the previous levels L with
\* min - pad <= L <= max + pad, pad a tenth of max - min, in their order, and
\* persists the list iff a level was removed.
C14_PruneToPaddedRange ==
  [][Rendered =>
       /\ alertLines' = InRange(alertLines, PricesOf(ev'.returned))
       /\ Saved <=> Len(alertLines') < Len(alertLines)
       /\ Saved => Persisted(alertLines')]_vars

\* an update with the series 100..200 kept the level on the edge of the
\* padded range, removed the one just beyond it and saved the list
C14_Witness ==
  /\ ev.op = "fetch"
  /\ chart.data = <<100, 200>>
  /\ disk.alerts[settings.instrument].lines = <<211, 210>>
  /\ alertLines = <<210>>
  /\ Len(saveQ) = 1
  /\ saveQ[1].alerts[settings.instrument].lines = <<210>>

\* the least and the greatest of these prices
Bounds(prices) ==
  LET ps == {prices[k] : k \in 1 .. Len(prices)}
  IN <<CHOOSE m \in ps : \A x \in ps : m <= x, CHOOSE m \in ps : \A x \in ps : m >= x>>

\* C15: pruning is idempotent: an update whose series has the bounds of the
\* series the chart shows from the update before, the list not having been
\* changed in between, removes no level and persists nothing.
C15_PruneIdempotent ==
  [][(Rendered /\ chart.exists /\ Bounds(chart.data) = Bounds(PricesOf(ev'.returned))) =>
       /\ alertLines' = alertLines
       /\ saveQ' = saveQ]_vars

\* a failed fetch rendered the cached series 100..200 a second time over the
\* two levels on the edges of its padded range: both are still there and
\* nothing is being saved
C15_Witness ==
  /\ ev.op = "fetch"
  /\ ~ev.ok
  /\ ev.returned # <<>>
  /\ chart.data = <<100, 200>>
  /\ chart.data = PricesOf(ev.returned)
  /\ alertLines = <<90, 210>>
  /\ saveQ = <<>>

\* C16: alerts are persisted per instrument: a settings save keeps the stored
\* list of every instrument other than the one active in the saved settings.
C16_AlertsKeptPerInstrument ==
  [][ev'.op = "main" =>
       \A i \in Instruments \ {Head(saveQ).instrument} :
         disk'.alerts[i] = disk.alerts[i]]_vars

\* C17: selecting a timeframe leaves the active list equal to the list the
\* alerts map held for the instrument, and no save it makes carries another
\* list for that instrument.
C17_TimeframeKeepsAlerts ==
  [][ev'.op = "timeframe" =>
       /\ alertLines' = loadAlerts(settings).lines
       /\ \A k \in Len(saveQ) + 1 .. Len(saveQ') :
            saveQ'[k].alerts[settings.instrument].lines = loadAlerts(settings).lines]_vars

\* the instrument or the timeframe used for fetching changes in this step
SelectionChanged ==
  \/ settings'.instrument # settings.instrument
  \/ getTimeframe(settings') # getTimeframe(settings)

\* C18: every change of the instrument or of the timeframe used for fetching
\* tears down the chart and clears the cached series and the last price, and
\* a data refresh never destroys the chart.
C18_ChartLivesWithSelection ==
  /\ [][SelectionChanged =>
          chart' = NoChart /\ lastSuccessfulData' = <<>> /\ lastPrice' = NULL]_vars
  /\ [][(ev'.op = "fetch" /\ chart.exists) => chart'.exists]_vars

\* C19: at most one refresh timer is active, the one whose id is recorded.
C19_OneTimer ==
  /\ Cardinality(timers) <= 1
  /\ \A t \in timers : t.id = refreshIntervalId

\* the start of the refresh timer at the end of init() cancelled the timer a
\* settings update had started while init() was waiting for its fetch
C19_Witness ==
  /\ ev.op = "fetch"
  /\ ev.req.init
  /\ ev.cancelled # 0
  /\ Cardinality(timers) = 1

\* the period, in milliseconds, the refresh timer has under settings s
PeriodOf(s) == (IF s.refreshInterval = 0 THEN 60 ELSE s.refreshInterval) * 1000

\* C20: after a settings update every active refresh timer has the period of
\* the current refreshInterval setting, and an update that changes the setting
\* while a timer runs cancels that timer.
C20_TimerFollowsInterval ==
  [][ev'.op = "updated" =>
       /\ \A t \in timers' : t.ms = PeriodOf(settings')
       /\ (settings'.refreshInterval # settings.refreshInterval /\ timers # {})
            => ev'.cancelled # 0]_vars

\* a handler started a quote fetch
FetchStarted == Len(fetches') > Len(fetches)

\* C21: no operation starts a quote fetch while the configured API key is
\* empty.
C21_NoFetchWithoutKey ==
  [][FetchStarted => settings'.apiKey # ""]_vars

\* C22: once init() has run, a refresh timer is active whenever the
\* configured API key is non-empty, and a failed fetch leaves a timer running if one was.
C22_TimerWhileKeyed ==
  /\ []((initPc = "done" /\ settings.apiKey # "") => timers # {})
  /\ [][(ev'.op = "fetch" /\ ~ev'.ok /\ timers # {}) => timers' # {}]_vars

\* C23: the series a chart update renders has the length of the series S it
\* was given and is S in reverse order: its points come from elements of
\* strictly increasing time, and the current price is the close of S's first
\* (newest) element, the first price the close of its last.
C23_RenderedReversed ==
  (ev.op = "fetch" /\ ev.returned # <<>>) =>
    LET S == ev.returned
        n == Len(S)
    IN /\ chart.exists
       /\ Len(chart.data) = n
       /\ \A i \in 1 .. n : chart.data[i] = ParseFloat(S[n + 1 - i].close)
       /\ \A i, j \in 1 .. n : i < j => S[n + 1 - i].datetime < S[n + 1 - j].datetime
       /\ lastPrice = ParseFloat(S[1].close)
       /\ chart.data[n] = lastPrice
       /\ chart.data[1] = ParseFloat(S[n].close)

\* a fetched series of two different closes has been rendered
C23_Witness ==
  /\ ev.op = "fetch"
  /\ ev.ok
  /\ Len(ev.returned) = 2
  /\ ev.returned[1].close # ev.returned[2].close
  /\ chart.data = <<ParseFloat(ev.returned[2].close), ParseFloat(ev.returned[1].close)>>

\* C24: where every save is one of the renderer's own (the settings form is
\* not used), the arrival of a settings-updated message neither changes the
\* renderer's settings object nor starts a fetch.
C24_SaveNoFeedback ==
  [][ev'.op = "updated" => (settings' = settings /\ ~FetchStarted)]_vars

\* C25: a chart update checks the crossings on the list as it was before
\* pruning: every level of that list the new price crosses emits its alert,
\* once per entry, also when it lies outside the padded range of the new
\* series, and such a level is then gone from the list.
C25_CheckBeforePrune ==
  [][(Rendered /\ lastPrice # NULL) =>
       LET P == NewestPrice(ev'.returned)
           prices == PricesOf(ev'.returned)
           levels == {alertLines[k] : k \in 1 .. Len(alertLines)} \ {HOLE}
       IN \A L \in levels :
            /\ (lastPrice < L /\ L <= P) =>
                  CountEvents(emitted', L, "up") = Entries(alertLines, L)
            /\ (lastPrice > L /\ L >= P) =>
                  CountEvents(emitted', L, "down") = Entries(alertLines, L)
            /\ Entries(InRange(alertLines, prices), L) = 0 =>
                  Entries(alertLines', L) = 0]_vars

\* a chart update has emitted the alert of a level it then pruned
C25_Witness ==
  /\ ev.op = "fetch"
  /\ ev.returned # <<>>
  /\ \E k \in 1 .. Len(emitted) : Entries(alertLines, emitted[k].price) = 0

\* C26: during a drag the drag index is an index of the alert list, and no
\* step other than a pointer move changes the list under it, so that it keeps
\* referring to the level hit at pointer-down.
C26_DragIndexValid ==
  /\ [](draggingAlertIndex # NULL =>
          (0 <= draggingAlertIndex /\ draggingAlertIndex < Len(alertLines)))
  /\ [][(draggingAlertIndex # NULL /\ draggingAlertIndex' # NULL
            /\ ev'.op # "mousemove") => alertLines' = alertLines]_vars

\* the settings most recently handed to saveSettings, or the loaded file
LastSaved == IF saveQ # <<>> THEN ToJson(saveQ[Len(saveQ)]) ELSE disk

\* C27: outside a drag the alert list in memory is the list most recently
\* persisted or loaded for the active instrument.
C27_NoUnsavedChange ==
  (initPc # "start" /\ draggingAlertIndex = NULL) =>
    ToJson(WithAlerts(settings, alertLines)).alerts[settings.instrument].lines
      = LastSaved.alerts[settings.instrument].lines

\* C28: a failed fetch that re-renders the cached series presents the
\* recorded last price again and emits no alert, whatever the list holds.
C28_FallbackSilent ==
  [][(ev'.op = "fetch" /\ ~ev'.ok /\ ev'.returned # <<>>) =>
       /\ NewestPrice(ev'.returned) = lastPrice
       /\ lastPrice' = lastPrice
       /\ emitted' = <<>>]_vars

\* the cached series has been re-rendered over a list holding a level that is
\* not in the loaded settings file, i.e. was added or dragged since
C28_Witness ==
  /\ ev.op = "fetch"
  /\ ~ev.ok
  /\ ev.returned # <<>>
  /\ \E k \in 1 .. Len(alertLines) :
       /\ alertLines[k] # HOLE
       /\ Entries(configuredSettings.alerts[settings.instrument].lines, alertLines[k]) = 0

====
